---- MODULE Spec2Model ----
(***************************************************************************)
(* GatewayStatusMonitor (hummingbot/core/gateway/status_monitor.py) as a   *)
(* state machine.  Every coroutine is cut at its await points: one action  *)
(* is the synchronous code that runs between two awaits, for one outcome   *)
(* of the awaited call.                                                    *)
(***************************************************************************)
EXTENDS Integers, Sequences, FiniteSets, TLC

\* ------------------------------------------------------------- bounds ----
\* monitor-loop tasks that start() may create in one run
MaxTasks == 2
\* largest max_tries handed to wait_for_online_status
MaxTries == 2
\* entries in one get_gateway_status answer
MaxChains == 2
\* the positive currentBlockNumber of an answer (the other is 0)
MaxBlock == 1

\* -------------------------------------------------------- enumerations ---
RUNNING == "GatewayContainerStatus.RUNNING"
STOPPED == "GatewayContainerStatus.STOPPED"
ONLINE == "GatewayConnectivityStatus.ONLINE"
OFFLINE == "GatewayConnectivityStatus.OFFLINE"

\* _monitor_task = None
NoTask == 0

Tasks == 1..MaxTasks

\* Positions of one _monitor_loop task: "none" not created, "new" created by
\* start() and not yet run, the awaits of the try block, the sleep of the
\* finally block ("sleep": no exception pending, "sleepC": a CancelledError is
\* pending), "done": the coroutine has ended.
TryAwaits == {"ping", "connectors", "config", "status"}

\* ------------------------------------------------- inputs of the awaits --
\* the answers of get_gateway_status: lists of currentBlockNumber values
StatusLists == UNION {[1..n -> {0, MaxBlock}] : n \in 0..MaxChains}
\* lists that build_config_namespace_keys builds: the key paths of a
\* configuration {a: ...} and of a configuration {a: {b: ...}}
KeyLists == {<<"a">>, <<"a", "a.b">>}
\* the connector names of a well-formed get_connectors answer
ConnectorLists == {<<>>, <<"uniswap">>}
\* asyncio.wait_for raises TimeoutError; anything else the probe raises
PingErrors == {"TimeoutError", "Exception"}
\* where update_gateway_config_key_list can be interrupted by an exception
ConfigOutcomes == {"ok", "fetch_raises", "flatten_raises", "completer_raises"}

VARIABLES
    gateway_container_status,    \* _gateway_container_status
    gateway_connectivity_status, \* _gateway_connectivity_status
    ready_event,                 \* _gateway_ready_event.is_set()
    gateway_config_keys,         \* _gateway_config_keys
    GATEWAY_CONNECTORS,          \* GATEWAY_CONNECTORS
    monitor_task,                \* _monitor_task: NoTask or the task it refers to
    pc,                          \* position of every _monitor_loop task
    branch,                      \* history: the branch of the try block a task is in
    watch,                       \* history: the task whose probe outcomes scen follows, if any
    scen,                        \* history: progress of that task through [fail, success, success]
    stops,                       \* history: stop() calls since the last start(), up to 2
    wpc,                         \* position of one wait_for_online_status call
    wn,                          \* history: the max_tries it was called with
    max_tries,                   \* its local max_tries
    wsleeps,                     \* history: sleeps it has completed
    wres,                        \* the value it returned
    signing,                     \* history: the latest generate_signature_from_payload call
    signed_before                \* history: the call before it

monitorVars == <<gateway_container_status, gateway_connectivity_status, ready_event, gateway_config_keys, GATEWAY_CONNECTORS>>
taskVars == <<monitor_task, pc>>
histVars == <<branch, watch, scen, stops>>
waitVars == <<wpc, wn, max_tries, wsleeps, wres>>
authVars == <<signing, signed_before>>
vars == <<monitorVars, taskVars, histVars, waitVars, authVars>>

\* __init__, lines 41-47; no wait_for_online_status call is in progress
InitMonitor ==
    /\ gateway_container_status = STOPPED
    /\ gateway_connectivity_status = OFFLINE
    /\ ready_event = FALSE
    /\ gateway_config_keys = <<>>
    /\ GATEWAY_CONNECTORS = <<>>
    /\ monitor_task = NoTask
    /\ pc = [t \in Tasks |-> "none"]
    /\ branch = [t \in Tasks |-> "none"]
    /\ scen = 0
    /\ stops = 0
    /\ wpc = "idle"
    /\ wn = 0
    /\ max_tries = 0
    /\ wsleeps = 0
    /\ wres = STOPPED

\* no generate_signature_from_payload call has been made
NoCall == [called |-> FALSE]

InitAuth == signing = NoCall /\ signed_before = NoCall

Init == watch = NoTask /\ InitMonitor /\ InitAuth

\* ------------------------------------------------------ start and stop ---
\* start(): a new task every time, whatever _monitor_task holds
start ==
    /\ \E t \in Tasks :
        /\ pc[t] = "none"
        /\ \A u \in Tasks : u < t => pc[u] # "none"
        /\ pc' = [pc EXCEPT ![t] = "new"]
        /\ monitor_task' = t
    /\ stops' = 0
    /\ UNCHANGED <<monitorVars, branch, watch, scen, waitVars, authVars>>

\* a CancelledError thrown at the await of _fetch_gateway_configs and caught
\* by the `except Exception` of line 138
AfterCancelAbsorbed(p) ==
    IF p = "config" THEN "sleep" ELSE IF p \in TryAwaits THEN "sleepC" ELSE "done"

\* where a CancelledError thrown at position p takes the task: out of the
\* try block through `except CancelledError: raise` into the finally block,
\* or out of the coroutine
AfterCancel(p) == IF p \in TryAwaits THEN "sleepC" ELSE "done"

\* task.cancel() on task t, which is suspended at an await, and the next
\* resumption of t, in which the event loop throws the CancelledError there.
\* The two are one step: t runs nothing in between, and nothing else reads
\* the position of t.
Cancel(t) ==
    /\ pc' = [pc EXCEPT ![t] = AfterCancel(pc[t])]
    /\ branch' = [branch EXCEPT ![t] = "none"]
    /\ scen' = IF t = watch THEN 0 ELSE scen

\* stop() without line 75
StopKeepsTask ==
    /\ IF monitor_task # NoTask
         THEN Cancel(monitor_task) /\ UNCHANGED monitor_task
         ELSE UNCHANGED <<pc, monitor_task, branch, scen>>
    /\ stops' = IF stops < 2 THEN stops + 1 ELSE stops
    /\ UNCHANGED <<monitorVars, watch, waitVars, authVars>>

\* stop()
stop ==
    /\ IF monitor_task # NoTask
         THEN /\ Cancel(monitor_task)
              /\ monitor_task' = NoTask
         ELSE UNCHANGED <<pc, monitor_task, branch, scen>>
    /\ stops' = IF stops < 2 THEN stops + 1 ELSE stops
    /\ UNCHANGED <<monitorVars, watch, waitVars, authVars>>

\* ------------------------------------------------------- _monitor_loop ---
\* task t is suspended at the await p
At(t, p) == pc[t] = p

\* the event loop runs the new task up to its first await, the probe
TaskBegin(t) ==
    /\ At(t, "new")
    /\ pc' = [pc EXCEPT ![t] = "ping"]
    /\ UNCHANGED <<monitorVars, monitor_task, histVars, waitVars, authVars>>

\* history of the probe outcomes of the watched task: 1 after a False from
\* (STOPPED, OFFLINE), 2 after a True that follows it, 3 after a second True
ScenAfterPing(t, outcome) ==
    IF t # watch THEN scen
    ELSE IF outcome = "False"
      THEN (IF gateway_container_status = STOPPED /\ gateway_connectivity_status = OFFLINE THEN 1 ELSE 0)
      ELSE IF outcome = "True" /\ scen \in {1, 2} THEN scen + 1 ELSE 0

\* task t goes from the try block to the sleep of the finally block, its
\* cycle having taken the branch b
ToSleep(t, b) ==
    /\ pc' = [pc EXCEPT ![t] = "sleep"]
    /\ branch' = [branch EXCEPT ![t] = b]

\* ping_gateway() returned True within POLL_TIMEOUT: lines 96, 102, 107
PingTrue(t) ==
    /\ At(t, "ping")
    /\ IF gateway_container_status = STOPPED
         THEN /\ pc' = [pc EXCEPT ![t] = "connectors"]
              /\ branch' = [branch EXCEPT ![t] = "stopped"]
              /\ UNCHANGED gateway_container_status
         ELSE IF gateway_connectivity_status = OFFLINE
           THEN /\ pc' = [pc EXCEPT ![t] = "status"]
                /\ branch' = [branch EXCEPT ![t] = "offline"]
                /\ UNCHANGED gateway_container_status
           ELSE /\ ToSleep(t, "online")
                /\ gateway_container_status' = RUNNING
    /\ scen' = ScenAfterPing(t, "True")
    /\ UNCHANGED <<gateway_connectivity_status, ready_event, gateway_config_keys, GATEWAY_CONNECTORS, monitor_task, watch, stops, waitVars, authVars>>

\* lines 110-113 without line 113
AfterProbeFailureKeepsConn ==
    IF gateway_container_status = RUNNING
      THEN [gateway_container_status |-> STOPPED, gateway_connectivity_status |-> gateway_connectivity_status]
      ELSE [gateway_container_status |-> gateway_container_status, gateway_connectivity_status |-> gateway_connectivity_status]

\* lines 110-113 without line 112
AfterProbeFailureKeepsContainer ==
    IF gateway_container_status = RUNNING
      THEN [gateway_container_status |-> gateway_container_status, gateway_connectivity_status |-> OFFLINE]
      ELSE [gateway_container_status |-> gateway_container_status, gateway_connectivity_status |-> gateway_connectivity_status]

\* the two statuses after lines 110-113
AfterProbeFailure ==
    IF gateway_container_status = RUNNING
      THEN [gateway_container_status |-> STOPPED, gateway_connectivity_status |-> OFFLINE]
      ELSE [gateway_container_status |-> gateway_container_status, gateway_connectivity_status |-> gateway_connectivity_status]

\* ping_gateway() returned False within POLL_TIMEOUT: lines 109-113
PingFalse(t) ==
    /\ At(t, "ping")
    /\ ready_event' = FALSE
    /\ gateway_container_status' = AfterProbeFailure.gateway_container_status
    /\ gateway_connectivity_status' = AfterProbeFailure.gateway_connectivity_status
    /\ ToSleep(t, "False")
    /\ scen' = ScenAfterPing(t, "False")
    /\ UNCHANGED <<gateway_config_keys, GATEWAY_CONNECTORS, monitor_task, watch, stops,
                   waitVars, authVars>>

\* the probe raised e: `except Exception: pass`, then the finally block
PingRaises(t, e) ==
    /\ At(t, "ping")
    /\ e \in PingErrors
    /\ ToSleep(t, e)
    /\ scen' = ScenAfterPing(t, e)
    /\ UNCHANGED <<monitorVars, monitor_task, watch, stops,
                   waitVars, authVars>>

PingError(t) == \E e \in PingErrors : PingRaises(t, e)

\* get_connectors() returned a well-formed answer: lines 98-99, then line 100
\* up to the await of _fetch_gateway_configs
ConnectorsAnswer(t, names) ==
    /\ At(t, "connectors")
    /\ names \in ConnectorLists
    /\ GATEWAY_CONNECTORS' = names
    /\ pc' = [pc EXCEPT ![t] = "config"]
    /\ UNCHANGED <<gateway_container_status, gateway_connectivity_status, ready_event, gateway_config_keys, monitor_task, histVars, waitVars, authVars>>

ConnectorsOk(t) == \E names \in ConnectorLists : ConnectorsAnswer(t, names)

\* get_connectors() returned an answer that line 99 cannot process (no
\* .get, an entry without "name"): clear() on line 98 has run, the argument
\* of extend() raises
ConnectorsMalformed(t) ==
    /\ At(t, "connectors")
    /\ GATEWAY_CONNECTORS' = <<>>
    /\ ToSleep(t, "connectors_malformed")
    /\ UNCHANGED <<gateway_container_status, gateway_connectivity_status, ready_event, gateway_config_keys, monitor_task, watch, scen, stops, waitVars, authVars>>

\* get_connectors() raised, with line 107 run all the same (as it would be
\* from the finally block)
ConnectorsRaisesAdvances(t) ==
    /\ At(t, "connectors")
    /\ ToSleep(t, "connectors_raised")
    /\ gateway_container_status' = RUNNING
    /\ UNCHANGED <<gateway_connectivity_status, ready_event, gateway_config_keys, GATEWAY_CONNECTORS, monitor_task, watch, scen, stops,
                   waitVars, authVars>>

\* get_connectors() raised: `except Exception: pass`
ConnectorsRaises(t) ==
    /\ At(t, "connectors")
    /\ ToSleep(t, "connectors_raised")
    /\ UNCHANGED <<monitorVars, monitor_task, watch, scen, stops,
                   waitVars, authVars>>

\* update_gateway_config_key_list building the list in _gateway_config_keys
\* itself: a flattening that raises leaves what it has built
UpdateKeyListInPlace(o, kl) == IF o = "fetch_raises" THEN gateway_config_keys ELSE kl

\* update_gateway_config_key_list: the key list after an attempt with
\* outcome o whose flattening builds (or would have built) the list kl
update_gateway_config_key_list(o, kl) == IF o \in {"ok", "completer_raises"} THEN kl ELSE gateway_config_keys

\* the await of _fetch_gateway_configs ends; the rest of
\* update_gateway_config_key_list, which absorbs every Exception, then
\* lines 101 and 107
ConfigStep(t, o, kl) ==
    /\ At(t, "config")
    /\ o \in ConfigOutcomes
    /\ kl \in KeyLists
    /\ gateway_config_keys' = update_gateway_config_key_list(o, kl)
    /\ gateway_container_status' = RUNNING
    /\ ToSleep(t, o)
    /\ UNCHANGED <<gateway_connectivity_status, ready_event, GATEWAY_CONNECTORS, monitor_task, watch, scen,
                   stops, waitVars, authVars>>

ConfigRefresh(t) == \E o \in ConfigOutcomes, kl \in KeyLists : ConfigStep(t, o, kl)

\* any([status["currentBlockNumber"] > 0 for status in ...]), line 105
AnyPositive(st) == \E i \in DOMAIN st : st[i] > 0

\* the connectivity status assigned on lines 104-105
ConnectivityFrom(st) == IF AnyPositive(st) THEN ONLINE ELSE STOPPED

\* get_gateway_status() returned st: lines 104-107
StatusAnswer(t, st) ==
    /\ At(t, "status")
    /\ st \in StatusLists
    /\ gateway_connectivity_status' = ConnectivityFrom(st)
    /\ ready_event' = TRUE
    /\ gateway_container_status' = RUNNING
    /\ ToSleep(t, IF AnyPositive(st) THEN "progress" ELSE "no_progress")
    /\ UNCHANGED <<gateway_config_keys, GATEWAY_CONNECTORS, monitor_task, watch, scen, stops,
                   waitVars, authVars>>

StatusOk(t) == \E st \in StatusLists : StatusAnswer(t, st)

\* get_gateway_status() raised, or line 105 raised on its answer
StatusRaises(t) ==
    /\ At(t, "status")
    /\ ToSleep(t, "status_raised")
    /\ UNCHANGED <<monitorVars, monitor_task, watch, scen, stops,
                   waitVars, authVars>>

\* the finally block without line 125
ReadyAfterSleepKept == ready_event

\* the event after the sleep of the finally block, line 125
ReadyAfterSleep == FALSE

\* the sleep of the finally block ends: line 125, then the next probe
SleepWake(t) ==
    /\ At(t, "sleep")
    /\ ready_event' = ReadyAfterSleep
    /\ pc' = [pc EXCEPT ![t] = "ping"]
    /\ branch' = [branch EXCEPT ![t] = "none"]
    /\ scen' = IF t = watch /\ scen = 3 THEN 0 ELSE scen
    /\ UNCHANGED <<gateway_container_status, gateway_connectivity_status, gateway_config_keys, GATEWAY_CONNECTORS, monitor_task, watch, stops, waitVars, authVars>>

\* the sleep of the finally block ends with the CancelledError pending:
\* line 125, then the error leaves the coroutine
SleepWakeCancelled(t) ==
    /\ At(t, "sleepC")
    /\ ready_event' = ReadyAfterSleep
    /\ pc' = [pc EXCEPT ![t] = "done"]
    /\ UNCHANGED <<gateway_container_status, gateway_connectivity_status, gateway_config_keys, GATEWAY_CONNECTORS, monitor_task, histVars, waitVars, authVars>>

\* ---------------------------------------------- wait_for_online_status ---
\* line 86 with `max_tries < 0`
WaitReturnsLate(tries) == gateway_container_status = RUNNING \/ tries < 0

\* the test of line 86 with the local max_tries at `tries`
WaitReturns(tries) == gateway_container_status = RUNNING \/ tries <= 0

\* the call, up to its first return or sleep
WaitCall(n) ==
    /\ wpc = "idle"
    /\ n \in 0..MaxTries
    /\ wn' = n
    /\ max_tries' = n
    /\ wsleeps' = 0
    /\ IF WaitReturns(n)
         THEN wpc' = "done" /\ wres' = gateway_container_status
         ELSE wpc' = "sleeping" /\ UNCHANGED wres
    /\ UNCHANGED <<monitorVars, taskVars, histVars, authVars>>

wait_for_online_status == \E n \in 0..MaxTries : WaitCall(n)

\* a sleep of line 88 ends: line 89, then the test of line 86 again
WaitWake ==
    /\ wpc = "sleeping"
    /\ max_tries' = max_tries - 1
    /\ wsleeps' = wsleeps + 1
    /\ IF WaitReturns(max_tries - 1)
         THEN wpc' = "done" /\ wres' = gateway_container_status
         ELSE wpc' = "sleeping" /\ UNCHANGED wres
    /\ UNCHANGED <<monitorVars, taskVars, histVars, wn, authVars>>

\* ---------------------------------------------------- OkxPerpetualAuth ---
\* Strings are sequences of one-character strings.
\* the text 'https://www.okx.com' of line 84
BaseUrl ==
    <<"h", "t", "t", "p", "s", ":", "/", "/", "w", "w", "w", ".", "o", "k", "x", ".", "c", "o", "m">>

\* does the character p of the pattern of line 84 match the character c:
\* as a regular expression the text has one metacharacter, the dot, which
\* matches every character but a newline
MatchChar(p, c) == IF p = "." THEN c # "\n" ELSE p = c

\* re: the pattern matches url at position i
MatchAt(url, i) ==
    /\ i + Len(BaseUrl) - 1 <= Len(url)
    /\ \A k \in 1..Len(BaseUrl) : MatchChar(BaseUrl[k], url[i + k - 1])

\* re.sub(pattern, '', url) from position i on: every match, leftmost first,
\* is replaced by the empty string
RECURSIVE SubFrom(_, _)
SubFrom(url, i) ==
    IF i > Len(url) THEN <<>>
    ELSE IF MatchAt(url, i) THEN SubFrom(url, i + Len(BaseUrl))
    ELSE <<url[i]>> \o SubFrom(url, i + 1)

\* get_path_from_url, lines 84-85
get_path_from_url(url) == SubFrom(url, 1)

LowerLetters ==
    <<"a", "b", "c", "d", "e", "f", "g", "h", "i", "j", "k", "l", "m",
      "n", "o", "p", "q", "r", "s", "t", "u", "v", "w", "x", "y", "z">>
UpperLetters ==
    <<"A", "B", "C", "D", "E", "F", "G", "H", "I", "J", "K", "L", "M",
      "N", "O", "P", "Q", "R", "S", "T", "U", "V", "W", "X", "Y", "Z">>

\* str.upper on one character
UpperChar(c) ==
    IF \E i \in DOMAIN LowerLetters : LowerLetters[i] = c
      THEN UpperLetters[CHOOSE i \in DOMAIN LowerLetters : LowerLetters[i] = c]
      ELSE c

\* str.upper(method.value), line 46
Upper(str) == [i \in DOMAIN str |-> UpperChar(str[i])]

\* the default of the parameter body, line 34
None == "None"

\* lines 44-45, and str(body) of a body that is a string
BodyText(body) == IF body = None THEN <<>> ELSE body

\* the message of line 46
Message(timestamp, method, request_path, body) ==
    timestamp \o Upper(method) \o get_path_from_url(request_path) \o BodyText(body)

\* values of _get_timestamp: '2020-12-08T09:08:57.715Z' and one millisecond later
Timestamps ==
    {<<"2", "0", "2", "0", "-", "1", "2", "-", "0", "8", "T", "0", "9", ":", "0", "8", ":", "5", "7", ".", "7", "1", ms, "Z">> :
        ms \in {"5", "6"}}
\* values of RESTMethod members, and a lower-case one
Methods == {<<"G", "E", "T">>, <<"g", "e", "t">>, <<"P", "O", "S", "T">>}
ApiPath == <<"/", "a", "p", "i">>
\* 'https://www-okx.com': not the base URL, but a match of the pattern
LookalikeUrl == [BaseUrl EXCEPT ![12] = "-"]
\* request paths: a URL of the exchange, a bare path, a longer bare path, a
\* URL of another host
RequestPaths == {BaseUrl \o ApiPath, ApiPath, ApiPath \o <<"x">>, LookalikeUrl \o ApiPath}
Bodies == {None, <<>>, <<"x">>}

\* a call of generate_signature_from_payload, up to the message that line 47
\* hands to hmac
SignCall(timestamp, method, request_path, body) ==
    /\ signing' = [called |-> TRUE, timestamp |-> timestamp, method |-> method,
                   request_path |-> request_path, body |-> body,
                   message |-> Message(timestamp, method, request_path, body)]
    /\ signed_before' = signing
    /\ UNCHANGED <<monitorVars, taskVars, histVars, waitVars>>

generate_signature_from_payload ==
    \E timestamp \in Timestamps, method \in Methods, request_path \in RequestPaths, body \in Bodies :
        SignCall(timestamp, method, request_path, body)

\* ------------------------------------------------------ specifications ---
\* one step of a _monitor_loop task
monitor_loop ==
    \/ \E t \in Tasks : TaskBegin(t)
    \/ \E t \in Tasks : PingTrue(t)
    \/ \E t \in Tasks : PingFalse(t)
    \/ \E t \in Tasks : PingError(t)
    \/ \E t \in Tasks : ConnectorsOk(t)
    \/ \E t \in Tasks : ConnectorsMalformed(t)
    \/ \E t \in Tasks : ConnectorsRaises(t)
    \/ \E t \in Tasks : ConfigRefresh(t)
    \/ \E t \in Tasks : StatusOk(t)
    \/ \E t \in Tasks : StatusRaises(t)
    \/ \E t \in Tasks : SleepWake(t)
    \/ \E t \in Tasks : SleepWakeCancelled(t)

Next ==
    \/ start
    \/ stop
    \/ monitor_loop

\* the monitor under any calls of start() and stop()
Spec == Init /\ [][Next]_vars

\* the same, with the probe outcomes of one task followed by scen
InitScenario == watch \in Tasks /\ InitMonitor /\ InitAuth

ScenarioSpec == InitScenario /\ [][Next]_vars

\* a caller of wait_for_online_status beside a monitor that is started once
OneLoop == \A t \in Tasks : t > 1 => pc[t] = "none"

NextWait ==
    \/ wait_for_online_status
    \/ WaitWake
    \/ start /\ OneLoop'
    \/ stop
    \/ monitor_loop

\* asyncio.sleep(POLL_INTERVAL) on line 88 ends: the event loop's timer fires
WaitSpec == Init /\ [][NextWait]_vars /\ WF_vars(WaitWake)

\* a monitor that is started once; the event loop resumes a task whose await
\* has ended, and the timer of every sleep fires
NextLive ==
    \/ start /\ OneLoop'
    \/ stop
    \/ monitor_loop

LiveSpec == Init /\ [][NextLive]_vars /\ WF_vars(monitor_loop)

\* calls of generate_signature_from_payload on one OkxPerpetualAuth
AuthSpec == Init /\ [][generate_signature_from_payload]_vars

\* ------------------------------------------------------------- claims ----
\* C1: in every reachable state connectivity ONLINE implies container
\* RUNNING, and container STOPPED implies connectivity OFFLINE.
C1_OnlineImpliesRunning ==
    /\ gateway_connectivity_status = ONLINE => gateway_container_status = RUNNING
    /\ gateway_container_status = STOPPED => gateway_connectivity_status = OFFLINE

\* a loop has just confirmed progress: (RUNNING, ONLINE)
C1_Witness ==
    \E t \in Tasks :
        pc[t] = "sleep" /\ branch[t] = "progress" /\ gateway_connectivity_status = ONLINE /\ gateway_container_status = RUNNING

\* C2: the pair (container status, connectivity status) is always one of
\* (STOPPED, OFFLINE), (RUNNING, OFFLINE), (RUNNING, ONLINE).
C2_ThreeStates ==
    <<gateway_container_status, gateway_connectivity_status>> \in {<<STOPPED, OFFLINE>>, <<RUNNING, OFFLINE>>, <<RUNNING, ONLINE>>}

\* C3: when the cycles of a loop have had the probe outcomes False from
\* (STOPPED, OFFLINE), True, True, and the status query of the third cycle
\* reports a positive block number, that cycle's try block ends in
\* (RUNNING, ONLINE) with the readiness event set, and the event is clear when
\* the loop goes on to its next probe.
C3_FailSuccessSuccess ==
    [][\A t \in Tasks :
        /\ (t = watch /\ scen = 3 /\ pc[t] = "status" /\ pc'[t] = "sleep"
                /\ branch'[t] = "progress")
              => (gateway_container_status' = RUNNING /\ gateway_connectivity_status' = ONLINE /\ ready_event')
        /\ (t = watch /\ scen = 3 /\ branch[t] = "progress" /\ pc[t] = "sleep"
                /\ pc'[t] = "ping")
              => ~ready_event']_vars

\* the third cycle has ended its try block, and the loop that ran it is alone
C3_Witness ==
    /\ watch \in Tasks
    /\ scen = 3
    /\ pc[watch] = "sleep"
    /\ branch[watch] = "progress"
    /\ OneLoop
    /\ gateway_container_status = RUNNING /\ gateway_connectivity_status = ONLINE /\ ready_event

\* C4: a cycle whose probe succeeded with the container STOPPED and whose
\* get_connectors call raised changes neither status and goes on to the sleep
\* before the next cycle; with one loop running, the statuses are still
\* (STOPPED, OFFLINE) until that cycle ends.
C4_ConnectorsErrorKeepsStatus ==
    /\ [](\A t \in Tasks :
            branch[t] = "connectors_raised"
              => /\ pc[t] = "sleep"
                 /\ OneLoop => (gateway_container_status = STOPPED /\ gateway_connectivity_status = OFFLINE))
    /\ [][\A t \in Tasks :
            (branch'[t] = "connectors_raised" /\ branch[t] # "connectors_raised")
              => /\ branch[t] = "stopped"
                 /\ pc[t] = "connectors"
                 /\ UNCHANGED <<gateway_container_status, gateway_connectivity_status>>]_vars

\* get_connectors has raised in the cycle that is now sleeping
C4_Witness ==
    \E t \in Tasks :
        /\ branch[t] = "connectors_raised"
        /\ pc[t] = "sleep"
        /\ gateway_container_status = STOPPED /\ gateway_connectivity_status = OFFLINE

\* C5: a call of wait_for_online_status with max_tries = n >= 0 ends: it
\* returns RUNNING with no sleep when the container is RUNNING at the call,
\* returns RUNNING at the first test that sees RUNNING, never sleeps more than
\* n times, and returns STOPPED only after exactly n sleeps.
C5_WaitTerminates ==
    /\ [](/\ wsleeps <= wn
          /\ wpc = "sleeping" => wsleeps < wn
          /\ (wpc = "done" /\ wres = STOPPED) => wsleeps = wn
          /\ wpc = "done" => wres \in {RUNNING, STOPPED})
    /\ [][/\ (wpc = "idle" /\ wpc' # "idle" /\ gateway_container_status = RUNNING)
                => (wpc' = "done" /\ wres' = RUNNING /\ wsleeps' = 0)
          /\ (wpc = "sleeping" /\ wsleeps' # wsleeps /\ gateway_container_status = RUNNING)
                => (wpc' = "done" /\ wres' = RUNNING)
          /\ (wpc = "sleeping" /\ wsleeps' # wsleeps /\ gateway_container_status = STOPPED
                /\ wsleeps' < wn)
                => wpc' = "sleeping"]_vars
    /\ (wpc = "sleeping") ~> (wpc = "done")

\* the call returned STOPPED after as many sleeps as the bound allows
C5_Witness == wpc = "done" /\ wres = STOPPED /\ wn = MaxTries /\ wsleeps = MaxTries

\* C6: stop() on a monitor that was never started, or right after another
\* stop(), changes nothing: the task reference stays empty and no task is
\* cancelled.
C6_StopIdempotent ==
    [][(stop /\ (stops >= 1 \/ \A t \in Tasks : pc[t] = "none"))
          => (monitor_task' = NoTask /\ UNCHANGED <<monitorVars, taskVars>>)]_vars

\* stop() has been called twice in a row on a monitor whose loop had started
C6_Witness ==
    stops = 2 /\ monitor_task = NoTask /\ \E t \in Tasks : pc[t] \in {"sleepC", "done"}

\* C7: a cycle whose probe times out leaves the two statuses as a cycle
\* whose probe returns False from the same state would.
C7_TimeoutLikeFailure ==
    [][\A t \in Tasks :
        PingRaises(t, "TimeoutError")
          => (gateway_container_status' = AfterProbeFailure.gateway_container_status /\ gateway_connectivity_status' = AfterProbeFailure.gateway_connectivity_status)]_vars

\* C8: a cancellation thrown at any await takes the task into the finally
\* block with the error pending, or out of the coroutine; from then on the
\* task issues no probe, changes neither status, and can always go on to its
\* end.
C8_CancelPropagates ==
    /\ [](\A t \in Tasks : pc[t] = "sleepC" => ENABLED SleepWakeCancelled(t))
    /\ [][\A t \in Tasks :
            /\ (stop /\ monitor_task = t) => pc'[t] \in {"sleepC", "done"}
            /\ pc[t] \in {"sleepC", "done"}
                 => /\ pc'[t] \in {"sleepC", "done"}
                    /\ pc'[t] # pc[t] => UNCHANGED <<gateway_container_status, gateway_connectivity_status>>]_vars

\* a loop that was cancelled inside its try block has ended, and the statuses
\* are those it had reached
C8_Witness ==
    \E t \in Tasks :
        pc[t] = "done" /\ OneLoop /\ gateway_container_status = RUNNING /\ gateway_connectivity_status = ONLINE

\* C9: at most one _monitor_loop task is live, and none after a stop().
C9_OneLiveTask ==
    /\ Cardinality({t \in Tasks : pc[t] \notin {"none", "sleepC", "done"}}) <= 1
    /\ stops >= 1 => \A t \in Tasks : pc[t] \in {"none", "sleepC", "done"}

\* C10: the key list changes only in the step of a cycle that found the
\* container STOPPED in which the configuration was fetched and flattened,
\* and then becomes the list that was built; a fetch or a flattening that
\* raises leaves it as it was.
C10_KeyListReplacedOnlyOnRefresh ==
    [][/\ gateway_config_keys' # gateway_config_keys
            => \E t \in Tasks :
                 /\ pc[t] = "config"
                 /\ branch[t] = "stopped"
                 /\ branch'[t] \in {"ok", "completer_raises"}
                 /\ \E kl \in KeyLists : ConfigStep(t, branch'[t], kl) /\ gateway_config_keys' = kl
       /\ \A t \in Tasks :
            (pc[t] = "config" /\ branch'[t] \in {"fetch_raises", "flatten_raises"})
              => gateway_config_keys' = gateway_config_keys]_vars

\* a flattening has raised and the list of an earlier refresh is still there
C10_Witness ==
    \E t \in Tasks : branch[t] = "flatten_raises" /\ pc[t] = "sleep" /\ gateway_config_keys # <<>>

\* the base URL occurs in url at position i, character for character
BaseUrlAt(url, i) ==
    /\ i + Len(BaseUrl) - 1 <= Len(url)
    /\ \A k \in 1..Len(BaseUrl) : url[i + k - 1] = BaseUrl[k]

\* url with the occurrences of the base URL from position i on removed
RECURSIVE StripBaseUrl(_, _)
StripBaseUrl(url, i) ==
    IF i > Len(url) THEN <<>>
    ELSE IF BaseUrlAt(url, i) THEN StripBaseUrl(url, i + Len(BaseUrl))
    ELSE <<url[i]>> \o StripBaseUrl(url, i + 1)

\* C11: the message signed is the timestamp, the upper-cased method, the
\* request path with the base URL stripped (a path without the base URL
\* unchanged) and the body, an absent body being the empty string.
C11_CanonicalMessage ==
    signing.called
      => signing.message =
           signing.timestamp \o Upper(signing.method)
             \o StripBaseUrl(signing.request_path, 1)
             \o (IF signing.body = None THEN <<>> ELSE signing.body)

\* the signing context of a call: timestamp, verb, canonical path, body
SigningContext(call) ==
    <<call.timestamp, Upper(call.method), get_path_from_url(call.request_path), BodyText(call.body)>>

\* C12: two calls whose signing contexts differ in a field sign different
\* messages.
C12_DistinctContextsDistinctMessages ==
    (signing.called /\ signed_before.called /\ SigningContext(signing) # SigningContext(signed_before))
      => signing.message # signed_before.message

\* C13: the step in which a cycle that found (RUNNING, OFFLINE) gets the
\* answer of the status query sets the connectivity status to ONLINE when an
\* entry has a positive currentBlockNumber and leaves it OFFLINE otherwise.
C13_OnlineIffProgress ==
    [][\A t \in Tasks :
        (pc[t] = "status" /\ branch'[t] \in {"progress", "no_progress"})
          => gateway_connectivity_status' = (IF branch'[t] = "progress" THEN ONLINE ELSE OFFLINE)]_vars

\* C14: the readiness event becomes set only in the step of a connectivity
\* check whose answer has a positive block number.
C14_ReadyOnlyOnProgress ==
    [][(ready_event' /\ ~ready_event)
          => \E t \in Tasks : pc[t] = "status" /\ branch'[t] = "progress"]_vars

\* C15: the step in which the probe returns False clears the readiness event,
\* takes a RUNNING container to (STOPPED, OFFLINE) and changes neither status
\* of a STOPPED one; with one loop running, the monitor is at (STOPPED,
\* OFFLINE) with the event clear until that cycle ends.
C15_ProbeFailure ==
    /\ [](\A t \in Tasks :
            (branch[t] = "False" /\ OneLoop)
              => (gateway_container_status = STOPPED /\ gateway_connectivity_status = OFFLINE /\ ~ready_event))
    /\ [][\A t \in Tasks :
            (pc[t] = "ping" /\ branch'[t] = "False")
              => /\ ~ready_event'
                 /\ gateway_container_status = RUNNING
                      => (gateway_container_status' = STOPPED /\ gateway_connectivity_status' = OFFLINE)
                 /\ gateway_container_status = STOPPED
                      => UNCHANGED <<gateway_container_status, gateway_connectivity_status>>]_vars

\* the probe has failed in the one loop, which had brought the container to
\* RUNNING in an earlier cycle
C15_Witness ==
    \E t \in Tasks :
        /\ branch[t] = "False" /\ pc[t] = "sleep" /\ OneLoop
        /\ gateway_config_keys # <<>>
        /\ gateway_container_status = STOPPED /\ gateway_connectivity_status = OFFLINE /\ ~ready_event

\* C16: a loop that goes from the sleep of one cycle to the probe of the next
\* has cleared the readiness event, and the event is clear in every step that
\* issues a probe.
C16_ClearAtEveryProbe ==
    [][\A t \in Tasks :
        /\ (pc[t] = "sleep" /\ pc'[t] # "sleep" /\ ~(stop /\ monitor_task = t))
              => (pc'[t] = "ping" /\ ~ready_event')
        /\ (pc'[t] = "ping" /\ pc[t] # "ping") => ~ready_event']_vars

\* C17: the registry changes only in the step that installs the names of a
\* well-formed get_connectors answer, in a cycle that found the container
\* STOPPED and goes on to RUNNING.
C17_RegistryReplacedAtomically ==
    [][GATEWAY_CONNECTORS' # GATEWAY_CONNECTORS
          => \E t \in Tasks :
               /\ pc[t] = "connectors" /\ branch[t] = "stopped"
               /\ pc'[t] = "config"
               /\ GATEWAY_CONNECTORS' \in ConnectorLists]_vars

\* C18: the step in which the configuration fetch of a cycle raises changes
\* neither status: the container is still STOPPED when the cycle ends.
C18_ConfigErrorKeepsStatus ==
    [][\A t \in Tasks :
        (pc[t] = "config" /\ branch'[t] = "fetch_raises")
          => UNCHANGED <<gateway_container_status, gateway_connectivity_status>>]_vars

\* a step in which no call of the loop fails, the status query reports a
\* positive block number, and the monitor is not stopped
GoodStep ==
    /\ ~stop
    /\ \A t \in Tasks :
         branch'[t] \in {"none", "stopped", "offline", "online", "ok", "progress"}

\* C19: if from some point on a loop is running, every probe and every
\* downstream call succeeds and every status answer has a positive block
\* number, the monitor eventually is at (RUNNING, ONLINE).
C19_EventuallyOnline ==
    (<>[](\E t \in Tasks : pc[t] \in {"new", "sleep"} \cup TryAwaits) /\ <>[][GoodStep]_vars)
      => <>(gateway_container_status = RUNNING /\ gateway_connectivity_status = ONLINE)

\* C20: when the monitor has been stopped and no loop task is left running,
\* the readiness event is clear.
C20_StoppedMeansClear ==
    (stops >= 1 /\ monitor_task = NoTask /\ \A t \in Tasks : pc[t] \in {"none", "done"})
      => ~ready_event

====
